---------------------------- MODULE Spec2Model ----------------------------
(***************************************************************************)
(* fsynctest.cpp: CommittedFile, the write-to-".work"/fsync/rename/        *)
(* fsync-directory file replacement, its descriptor handles (BaseFd,      *)
(* DirFd, WriteFd) and readFile, over a model of one directory of a POSIX  *)
(* filesystem with a volatile (page cache) and a durable (disk) view.      *)
(* Every system call is one step, so that other threads, the kernel's      *)
(* writeback and a crash can fall between any two of them.                 *)
(***************************************************************************)
EXTENDS Integers, Sequences, FiniteSets, TLC

(***************************************************************************)
(* Bounds of the model.                                                    *)
(***************************************************************************)
\* Payloads and pre-existing file contents are byte strings of at most MaxLen bytes.
MaxLen == 2
\* Inodes the directory's filesystem can hold; creating a file beyond them fails.
NumInodes == 6
\* Descriptors the process can hold open; opening beyond them fails.
NumFds == 3
\* write() calls started in one behaviour.
MaxWrites == 2
\* Explicit close() calls the handle harness makes on one handle.
MaxCloses == 2
\* The buffer passed to writeAll, where writeAll is examined on its own, is of at most
\* MaxBuf bytes.
MaxBuf == 4

(***************************************************************************)
(* Program constants.                                                      *)
(***************************************************************************)
\* char buffer[4096] of readFile
BufferSize == 4096

\* basename(filePath): the one target name of the model
fileName == "f"

\* A faulty variant of WorkFileName: the payload is written in place, into the target itself.
WorkFileName_inPlace(name) == name

\* auto workFileName(fileName + ".work")
WorkFileName(name) == name \o ".work"

workFileName == WorkFileName(fileName)

Names == {fileName, workFileName}

Threads == 1..3
Inodes == 1..NumInodes
FdNums == 3..(2 + NumFds)

\* The byte strings of the model: n bytes, each marked with who wrote it (k) and
\* with its position, so that no byte of one string occurs in another or twice.
\* Byte 0 is what a hole in a file reads as.
Bytes(k, n) == [i \in 1..n |-> k * (MaxLen + 1) + i]

\* The payload of the k-th write call started (k >= 1), of n bytes.
Payload(k, n) == Bytes(k, n)
\* What the target may hold before the program runs.
OldContents == {Bytes(0, n) : n \in 0..MaxLen}
\* What a work file left behind by an earlier run may hold.
StaleContents == {Bytes(MaxWrites + 1, n) : n \in 0..MaxLen}

\* The name is not bound / there is no value.
Absent == <<-1>>

Max(a, b) == IF a > b THEN a ELSE b
Min(a, b) == IF a < b THEN a ELSE b

(***************************************************************************)
(* The filesystem.  dir and data are what system calls see; durDir and     *)
(* durData are what is on stable storage and survives a crash.             *)
(***************************************************************************)
VARIABLES
    dir,        \* name -> inode (0: the name does not exist)
    data,       \* inode -> contents
    durDir,     \* the directory as it is on disk
    durData,    \* the contents as they are on disk
    fdt,        \* thread -> its process's descriptor table: descriptor -> open file
    th,         \* thread -> its frame: position and locals of the running call
    env,        \* what this behaviour's threads and system calls may do (fixed by Init)
    pre,        \* history: the target's contents when the behaviour began
    writes,     \* history: payloads of the write calls started, in order
    pubs,       \* history: payloads whose rename succeeded, in order
    oks,        \* history: payloads of the write calls that returned normally
    last,       \* history: the last write call started
    crashed     \* history: "no", or the call and position of thread 1 that the crash
                \* just recovered from interrupted

vars == <<dir, data, durDir, durData, fdt, th, env, pre, writes, pubs, oks,
          last, crashed>>

FreeDesc == [kind |-> "free", ino |-> 0, off |-> 0]
DirDesc == [kind |-> "dir", ino |-> 0, off |-> 0]
FileDesc(i) == [kind |-> "file", ino |-> i, off |-> 0]

OpenFds(ft) == {fd \in FdNums : ft[fd].kind # "free"}
FreeFds(ft) == FdNums \ OpenFds(ft)
\* The kernel hands out the lowest free descriptor.
LowestFree(ft) == CHOOSE fd \in FreeFds(ft) : \A g \in FreeFds(ft) : fd <= g

\* Inodes something still refers to: a name (in memory or on disk) or an open file.
Referenced(d, dd, ft) ==
    {d[n] : n \in Names} \cup {dd[n] : n \in Names}
        \cup {ft[t][fd].ino : t \in Threads, fd \in FdNums}
FreeInodes(d, dd, ft) == Inodes \ Referenced(d, dd, ft)
FreshInode(d, dd, ft) ==
    CHOOSE i \in FreeInodes(d, dd, ft) : \A j \in FreeInodes(d, dd, ft) : i <= j

\* An inode nothing refers to is released: its contents are gone.
Clean(dt, d, dd, ft) ==
    [i \in Inodes |-> IF i \in Referenced(d, dd, ft) THEN dt[i] ELSE <<>>]

\* The new filesystem state of a step.
SetFS(d, dt, dd, ddt, ft) ==
    /\ dir' = d
    /\ durDir' = dd
    /\ fdt' = ft
    /\ data' = Clean(dt, d, dd, ft)
    /\ durData' = Clean(ddt, d, dd, ft)

\* What a name holds: its file's contents, or Absent.
Content(d, dt, n) == IF d[n] = 0 THEN Absent ELSE dt[d[n]]
Target == Content(dir, data, fileName)
Work == Content(dir, data, workFileName)
DurTarget == Content(durDir, durData, fileName)

\* write(2) of bytes at offset off of a file holding s; a gap reads as zeros.
WriteAt(s, off, bytes) ==
    [i \in 1..Max(Len(s), off + Len(bytes)) |->
        IF i > off /\ i <= off + Len(bytes) THEN bytes[i - off]
        ELSE IF i <= Len(s) THEN s[i] ELSE 0]

IsPrefix(p, s) == Len(p) <= Len(s) /\ SubSeq(s, 1, Len(p)) = p
Prefixes(s) == {SubSeq(s, 1, k) : k \in 0..Len(s)}


(***************************************************************************)
(* Threads, each the one thread of a process of its own.  A frame holds    *)
(* the locals of the call a thread is in, under the names of the source.   *)
(***************************************************************************)
Ops == {"new", "write", "read", "handle"}

Frame0 ==
    [pc |-> "idle",         \* where the thread is
     call |-> "none",       \* the CommittedFile operation it is in
     obj |-> FALSE,         \* it holds a constructed CommittedFile
     n |-> 0,               \* history: the write calls it has started
     dirFd |-> -1,          \* DirFd dirFd: its fd member
     workFileFd |-> -1,     \* WriteFd workFileFd: its fd member
     data |-> Absent,       \* write's argument
     written |-> 0,         \* writeAll's written
     fd |-> -1,             \* readFile's fd
     os |-> <<>>,           \* readFile's os
     len |-> 0,             \* readFile's len
     savedErrno |-> "none", \* readFile's savedErrno
     errno |-> "none",      \* errno as the last failed system call left it
     exc |-> "none",        \* the exception in flight or thrown: the failed operation
     excErrno |-> "none",   \* and its error code
     ret |-> Absent,        \* read's return value
     closes |-> [dirFd |-> 0, workFileFd |-> 0],  \* history: close() calls made on each handle
     opened |-> Absent,     \* history: what the target held when readFile opened it
     trace |-> <<>>]        \* history: the system calls of this call, <<name, fd, result, errno>>

\* The last write call started: its payload; what the target held, on which inode, and
\* what it held on disk, when the call began; what the work name held then; whether
\* its rename has succeeded; whether a crash has struck since it began ("no", "cut":
\* while the call was running, "later": after it had ended); whether it has returned
\* normally.
Last0 ==
    [data |-> Absent, prior |-> Absent, durPrior |-> Absent, ino |-> 0, work |-> Absent,
     renamed |-> FALSE, crash |-> "no", ok |-> FALSE]

\* The results a system call may have: failures are injected where env allows.
Outcomes(t) == IF env.faults[t] THEN {TRUE, FALSE} ELSE {TRUE}

Log(f, entry) == IF env.log THEN [f EXCEPT !.trace = Append(@, entry)] ELSE f

\* A faulty variant of Throw: the failure ends the function but no exception leaves it.
Throw_swallowed(f, op, e) == [f EXCEPT !.errno = e, !.pc = "dtor"]

\* throw std::system_error(errno, ...): the scope unwinds through its destructors.
Throw(f, op, e) ==
    [f EXCEPT !.exc = op, !.excErrno = e, !.errno = e, !.pc = "dtor"]

(***************************************************************************)
(* The handles.                                                            *)
(***************************************************************************)
\* A faulty variant of ClosedFd: close() keeps the descriptor in the handle.
ClosedFd_kept(fd) == fd

\* BaseFd::close: fd = -1 before ::close is called
ClosedFd(fd) == -1

\* BaseFd::~BaseFd and BaseFd::close: if (fd >= 0)
HoldsFd(fd) == fd >= 0

\* A faulty variant of UnlinkThrows: ENOENT is not swallowed.
UnlinkThrows_strict(r, e) == r = -1

\* DirFd::unlink: (::unlinkat(...) == -1) && (errno != ENOENT)
UnlinkThrows(r, e) == r = -1 /\ e # "ENOENT"

\* A faulty variant of WriteAllDone: one write call, a short write is not continued.
WriteAllDone_once(written, size) == TRUE

\* A faulty variant of WriteAllDone: while (written <= size).
WriteAllDone_offByOne(written, size) == ~(written <= size)

\* WriteFd::writeAll: the loop ends when !(written < size)
WriteAllDone(written, size) == ~(written < size)

\* WriteFd::writeAll: written += static_cast<size_t>(ret)
WrittenAfter(written, ret) == written + ret

\* A faulty variant of WriteNext: the work file is renamed without having been synced.
WriteNext_noFileSync(pc) ==
    CASE pc = "write_DirFd" -> "write_WriteFd"
      [] pc = "write_WriteFd" -> "write_writeAll"
      [] pc = "write_writeAll" -> "write_close"
      [] pc = "write_sync" -> "write_close"
      [] pc = "write_close" -> "write_renameFile"
      [] pc = "write_renameFile" -> "write_dirSync"
      [] pc = "write_dirSync" -> "write_dirClose"
      [] pc = "write_dirClose" -> "dtor"

\* A faulty variant of WriteNext: the directory is not synced after the rename.
WriteNext_noDirSync(pc) ==
    CASE pc = "write_DirFd" -> "write_WriteFd"
      [] pc = "write_WriteFd" -> "write_writeAll"
      [] pc = "write_writeAll" -> "write_sync"
      [] pc = "write_sync" -> "write_close"
      [] pc = "write_close" -> "write_renameFile"
      [] pc = "write_renameFile" -> "write_dirClose"
      [] pc = "write_dirSync" -> "write_dirClose"
      [] pc = "write_dirClose" -> "dtor"

\* CommittedFile::write: the statement that follows each statement
WriteNext(pc) ==
    CASE pc = "write_DirFd" -> "write_WriteFd"
      [] pc = "write_WriteFd" -> "write_writeAll"
      [] pc = "write_writeAll" -> "write_sync"
      [] pc = "write_sync" -> "write_close"
      [] pc = "write_close" -> "write_renameFile"
      [] pc = "write_renameFile" -> "write_dirSync"
      [] pc = "write_dirSync" -> "write_dirClose"
      [] pc = "write_dirClose" -> "dtor"

\* A faulty variant of CleanupNext: the stale work file is not unlinked.
CleanupNext_noUnlink(pc) ==
    CASE pc = "cleanup_DirFd" -> "cleanup_close"
      [] pc = "cleanup_unlink" -> "cleanup_close"
      [] pc = "cleanup_close" -> "dtor"

\* CommittedFile::cleanup: the statement that follows each statement
CleanupNext(pc) ==
    CASE pc = "cleanup_DirFd" -> "cleanup_unlink"
      [] pc = "cleanup_unlink" -> "cleanup_close"
      [] pc = "cleanup_close" -> "dtor"

\* A faulty variant of Truncated: the file is opened without O_TRUNC.
Truncated_kept(s) == s

\* WriteFd::WriteFd: O_TRUNC, what a file that is opened holds afterwards
Truncated(s) == <<>>

\* DirFd::DirFd: ::open(directory, O_RDONLY | O_CLOEXEC); throws if fd == -1
DirFd_ctor(t, next) ==
    \E ok \in Outcomes(t) :
        LET f == th[t]
            good == ok /\ FreeFds(fdt[t]) # {}
            fd == IF good THEN LowestFree(fdt[t]) ELSE -1
            e == IF fd # -1 THEN "none" ELSE IF ok THEN "EMFILE" ELSE "EACCES"
            g == Log(f, <<"open", -1, fd, e>>)
        IN  /\ th' = [th EXCEPT ![t] =
                        IF fd = -1
                        THEN Throw(g, "open", e)
                        ELSE [g EXCEPT !.dirFd = fd, !.pc = next]]
            /\ SetFS(dir, data, durDir, durData,
                     IF good THEN [fdt EXCEPT ![t][fd] = DirDesc] ELSE fdt)
            /\ UNCHANGED <<env, pre, writes, pubs, oks, last, crashed>>

\* WriteFd::WriteFd: ::openat(dirFd, file, O_CREAT | O_WRONLY | O_TRUNC | O_CLOEXEC, 0644)
WriteFd_ctor(t, file, next) ==
    \E ok \in Outcomes(t) :
        LET f == th[t]
            exists == dir[file] # 0
            good == /\ ok
                    /\ HoldsFd(f.dirFd)
                    /\ FreeFds(fdt[t]) # {}
                    /\ (exists \/ FreeInodes(dir, durDir, fdt) # {})
            fd == IF good THEN LowestFree(fdt[t]) ELSE -1
            ino == IF exists THEN dir[file] ELSE FreshInode(dir, durDir, fdt)
            e == IF fd # -1 THEN "none" ELSE IF ok THEN "ENOSPC" ELSE "EACCES"
            g == Log(f, <<"openat", f.dirFd, fd, e>>)
        IN  /\ th' = [th EXCEPT ![t] =
                        IF fd = -1
                        THEN Throw(g, "open", e)
                        ELSE [g EXCEPT !.workFileFd = fd, !.pc = next]]
            /\ IF good
               THEN SetFS([dir EXCEPT ![file] = ino], [data EXCEPT ![ino] = Truncated(@)],
                          durDir, durData, [fdt EXCEPT ![t][fd] = FileDesc(ino)])
               ELSE SetFS(dir, data, durDir, durData, fdt)
            /\ UNCHANGED <<env, pre, writes, pubs, oks, last, crashed>>

\* BaseFd::sync on the handle whose fd member is field h: ::fsync(fd)
BaseFd_sync(t, h, next) ==
    \E ok \in Outcomes(t) :
        LET f == th[t]
            fd == f[h]
            g == Log(f, IF ok THEN <<"fsync", fd, 0, "none">> ELSE <<"fsync", fd, -1, "EIO">>)
            ino == fdt[t][fd].ino
        IN  /\ th' = [th EXCEPT ![t] =
                        IF ok THEN [g EXCEPT !.pc = next] ELSE Throw(g, "fsync", "EIO")]
            /\ IF ~ok THEN SetFS(dir, data, durDir, durData, fdt)
               ELSE IF fdt[t][fd].kind = "dir" THEN SetFS(dir, data, dir, durData, fdt)
               ELSE SetFS(dir, data, durDir, [durData EXCEPT ![ino] = data[ino]], fdt)
            /\ UNCHANGED <<env, pre, writes, pubs, oks, last, crashed>>

\* BaseFd::close on the handle whose fd member is field h
BaseFd_close(t, h, next) ==
    \E ok \in Outcomes(t) :
        LET f == [th[t] EXCEPT !.closes[h] = Min(@ + 1, MaxCloses)]
            copy == f[h]
        IN  IF HoldsFd(copy)
            THEN LET g == Log([f EXCEPT ![h] = ClosedFd(copy)],
                              IF ok THEN <<"close", copy, 0, "none">>
                              ELSE <<"close", copy, -1, "EIO">>)
                 IN  /\ th' = [th EXCEPT ![t] =
                                 IF ok THEN [g EXCEPT !.pc = next]
                                 ELSE Throw(g, "close", "EIO")]
                     \* the kernel releases the descriptor also when close reports an error
                     /\ SetFS(dir, data, durDir, durData, [fdt EXCEPT ![t][copy] = FreeDesc])
                     /\ UNCHANGED <<env, pre, writes, pubs, oks, last, crashed>>
            ELSE /\ ok
                 /\ th' = [th EXCEPT ![t] = [f EXCEPT !.pc = next]]
                 /\ SetFS(dir, data, durDir, durData, fdt)
                 /\ UNCHANGED <<env, pre, writes, pubs, oks, last, crashed>>

(***************************************************************************)
(* CommittedFile::CommittedFile and CommittedFile::cleanup.                *)
(***************************************************************************)
Idle(t, op) == th[t].pc = "idle" /\ op \in env.ops[t]

\* CommittedFile cf(filePath): the constructor starts; the object exists when it returns.
\* A thread that runs writeFile constructs one object for each write.
CallNew(t) ==
    /\ Idle(t, "new")
    /\ env.driver[t] = "writeFile" => ~th[t].obj /\ th[t].n < env.quota[t]
    /\ th' = [th EXCEPT ![t] =
                [Frame0 EXCEPT !.pc = "cleanup_DirFd", !.call = "new", !.n = th[t].n]]
    /\ crashed' = "no"
    /\ UNCHANGED <<dir, data, durDir, durData, fdt, env, pre, writes, pubs, oks, last>>

\* cleanup: DirFd dirFd(directory)
Cleanup_DirFd(t) ==
    /\ th[t].pc = "cleanup_DirFd"
    /\ DirFd_ctor(t, CleanupNext("cleanup_DirFd"))

\* cleanup: dirFd.unlink(workFileName), DirFd::unlink
Cleanup_unlink(t) ==
    /\ th[t].pc = "cleanup_unlink"
    /\ \E ok \in Outcomes(t) :
        LET f == th[t]
            exists == dir[workFileName] # 0
            r == IF ok /\ exists THEN 0 ELSE -1
            e == IF ok THEN "ENOENT" ELSE "EACCES"
            g == Log(f, <<"unlinkat", f.dirFd, r, IF r = 0 THEN "none" ELSE e>>)
        IN  /\ th' = [th EXCEPT ![t] =
                        IF UnlinkThrows(r, e) THEN Throw(g, "unlink", e)
                        ELSE [g EXCEPT !.pc = CleanupNext("cleanup_unlink"),
                                       !.errno = IF r = -1 THEN e ELSE @]]
            /\ SetFS(IF r = 0 THEN [dir EXCEPT ![workFileName] = 0] ELSE dir,
                     data, durDir, durData, fdt)
            /\ UNCHANGED <<env, pre, writes, pubs, oks, last, crashed>>

\* cleanup: dirFd.close()
Cleanup_close(t) ==
    /\ th[t].pc = "cleanup_close"
    /\ BaseFd_close(t, "dirFd", CleanupNext("cleanup_close"))

(***************************************************************************)
(* CommittedFile::write.                                                   *)
(***************************************************************************)
\* cf.write(data)
CallWrite(t) ==
    /\ Idle(t, "write")
    /\ th[t].obj
    /\ Len(writes) < MaxWrites
    /\ th[t].n < env.quota[t]
    /\ \E p \in {Payload(Len(writes) + 1, n) : n \in env.lens[t]} :
        /\ th' = [th EXCEPT ![t] =
                    [Frame0 EXCEPT !.pc = "write_DirFd", !.call = "write",
                                   !.obj = TRUE, !.n = th[t].n + 1, !.data = p]]
        /\ writes' = Append(writes, p)
        /\ last' = [data |-> p, prior |-> Target, durPrior |-> DurTarget,
                    ino |-> dir[fileName], work |-> Work, renamed |-> FALSE,
                    crash |-> "no", ok |-> FALSE]
    /\ crashed' = "no"
    /\ UNCHANGED <<dir, data, durDir, durData, fdt, env, pre, pubs, oks>>

\* write: DirFd dirFd(dirName(filePath))
Write_DirFd(t) ==
    /\ th[t].pc = "write_DirFd"
    /\ DirFd_ctor(t, WriteNext("write_DirFd"))

\* write: WriteFd workFileFd(dirFd, workFileName); writeAll's loop is not entered for size 0
Write_WriteFd(t) ==
    /\ th[t].pc = "write_WriteFd"
    /\ WriteFd_ctor(t, workFileName,
                    IF WriteAllDone(0, Len(th[t].data))
                    THEN WriteNext(WriteNext("write_WriteFd"))
                    ELSE WriteNext("write_WriteFd"))

\* write: workFileFd.writeAll(data.data(), data.size()), one ::write of WriteFd::writeAll
Write_writeAll(t) ==
    /\ th[t].pc = "write_writeAll"
    /\ LET f == th[t]
           size == Len(f.data)
           fd == f.workFileFd
           ino == fdt[t][fd].ino
           off == fdt[t][fd].off
       IN  \E ret \in (IF env.faults[t] THEN {-1} ELSE {}) \cup 1..(size - f.written) :
            LET g == Log(f, <<"write", fd, ret, IF ret < 0 THEN "ENOSPC" ELSE "none">>)
                bytes == SubSeq(f.data, f.written + 1, f.written + ret)
                w == WrittenAfter(f.written, ret)
            IN  IF ret < 0
                THEN /\ th' = [th EXCEPT ![t] = Throw(g, "write", "ENOSPC")]
                     /\ SetFS(dir, data, durDir, durData, fdt)
                ELSE /\ th' = [th EXCEPT ![t] =
                                [g EXCEPT !.written = w,
                                          !.pc = IF WriteAllDone(w, size)
                                                 THEN WriteNext("write_writeAll")
                                                 ELSE "write_writeAll"]]
                     /\ SetFS(dir, [data EXCEPT ![ino] = WriteAt(@, off, bytes)],
                              durDir, durData, [fdt EXCEPT ![t][fd].off = off + ret])
    /\ UNCHANGED <<env, pre, writes, pubs, oks, last, crashed>>

\* write: workFileFd.sync()
Write_sync(t) ==
    /\ th[t].pc = "write_sync"
    /\ BaseFd_sync(t, "workFileFd", WriteNext("write_sync"))

\* write: workFileFd.close()
Write_close(t) ==
    /\ th[t].pc = "write_close"
    /\ BaseFd_close(t, "workFileFd", WriteNext("write_close"))

\* write: dirFd.renameFile(workFileName, fileName), DirFd::renameFile
Write_renameFile(t) ==
    /\ th[t].pc = "write_renameFile"
    /\ \E ok \in Outcomes(t) :
        LET f == th[t]
            exists == dir[workFileName] # 0
            r == IF ok /\ exists THEN 0 ELSE -1
            e == IF r = 0 THEN "none" ELSE IF ok THEN "ENOENT" ELSE "EIO"
            g == Log(f, <<"renameat", f.dirFd, r, e>>)
            moved == IF workFileName = fileName THEN dir
                     ELSE [dir EXCEPT ![fileName] = dir[workFileName],
                                      ![workFileName] = 0]
        IN  /\ th' = [th EXCEPT ![t] =
                        IF r = -1
                        THEN Throw(g, "rename", e)
                        ELSE [g EXCEPT !.pc = WriteNext("write_renameFile")]]
            /\ SetFS(IF r = 0 THEN moved ELSE dir, data, durDir, durData, fdt)
            /\ pubs' = IF r = 0 THEN Append(pubs, f.data) ELSE pubs
            /\ last' = IF r = 0 THEN [last EXCEPT !.renamed = TRUE] ELSE last
            /\ UNCHANGED <<env, pre, writes, oks, crashed>>

\* write: dirFd.sync()
Write_dirSync(t) ==
    /\ th[t].pc = "write_dirSync"
    /\ BaseFd_sync(t, "dirFd", WriteNext("write_dirSync"))

\* write: dirFd.close()
Write_dirClose(t) ==
    /\ th[t].pc = "write_dirClose"
    /\ BaseFd_close(t, "dirFd", WriteNext("write_dirClose"))

(***************************************************************************)
(* Leaving a scope: ~WriteFd, then ~DirFd, run whether the function       *)
(* returns or an exception passes through it.                              *)
(***************************************************************************)
\* A faulty variant of DtorCloses: the destructor releases nothing.
DtorCloses_none(fd) == <<>>

\* BaseFd::~BaseFd of the handle with fd member fd: the descriptors it closes
DtorCloses(fd) == IF HoldsFd(fd) THEN <<fd>> ELSE <<>>

\* ::close in a destructor: its result is ignored
LogDtor(f, fds, ok) ==
    IF fds = <<>> THEN f
    ELSE Log(f, IF ok THEN <<"close", fds[1], 0, "none">>
                ELSE <<"close", fds[1], -1, "EIO">>)

Destructors(t) ==
    /\ th[t].pc = "dtor"
    /\ LET f == th[t]
           w == DtorCloses(f.workFileFd)
           d == DtorCloses(f.dirFd)
           normal == f.exc = "none"
       IN  \E okW \in (IF w = <<>> THEN {TRUE} ELSE Outcomes(t)),
              okD \in (IF d = <<>> THEN {TRUE} ELSE Outcomes(t)) :
            /\ th' = [th EXCEPT ![t] =
                        [LogDtor(LogDtor(f, w, okW), d, okD)
                            EXCEPT !.pc = "done",
                                   !.obj = IF f.call = "new" THEN normal ELSE @]]
            /\ SetFS(dir, data, durDir, durData,
                     [fdt EXCEPT ![t] =
                        [fd \in FdNums |->
                            IF \E i \in 1..Len(w \o d) : (w \o d)[i] = fd
                            THEN FreeDesc ELSE fdt[t][fd]]])
            /\ oks' = IF f.call = "write" /\ normal THEN oks \cup {f.data} ELSE oks
            /\ last' = IF f.call = "write" /\ normal THEN [last EXCEPT !.ok = TRUE]
                       ELSE last
    /\ UNCHANGED <<env, pre, writes, pubs, crashed>>

\* The caller has the result (or the exception); the call's frame is gone.  In
\* writeFile, cf goes out of scope after cf.write.
Return(t) ==
    /\ th[t].pc = "done"
    /\ th' = [th EXCEPT ![t] =
                [Frame0 EXCEPT !.n = th[t].n,
                               !.obj = /\ th[t].obj
                                       /\ ~(env.driver[t] = "writeFile"
                                                /\ th[t].call = "write")]]
    /\ UNCHANGED <<dir, data, durDir, durData, fdt, env, pre, writes, pubs, oks,
                   last, crashed>>

(***************************************************************************)
(* CommittedFile::read, readFile.                                          *)
(***************************************************************************)
\* A faulty variant of ReadErrno: the error code is read after the close.
ReadErrno_afterClose(saved, current) == current

\* readFile: the read failure is thrown with savedErrno
ReadErrno(saved, current) == saved

\* cf.read()
CallRead(t) ==
    /\ Idle(t, "read")
    /\ th[t].obj
    /\ th' = [th EXCEPT ![t] =
                [Frame0 EXCEPT !.pc = "read_open", !.call = "read", !.obj = TRUE,
                               !.n = th[t].n]]
    /\ crashed' = "no"
    /\ UNCHANGED <<dir, data, durDir, durData, fdt, env, pre, writes, pubs, oks, last>>

\* readFile: open(filePath, O_RDONLY | O_CLOEXEC); throws if fd == -1
Read_open(t) ==
    /\ th[t].pc = "read_open"
    /\ \E ok \in Outcomes(t) :
        LET f == th[t]
            exists == dir[fileName] # 0
            good == ok /\ exists /\ FreeFds(fdt[t]) # {}
            fd == IF good THEN LowestFree(fdt[t]) ELSE -1
            e == IF ~ok THEN "EACCES" ELSE IF ~exists THEN "ENOENT" ELSE "EMFILE"
            g == Log(f, <<"open", -1, fd, IF good THEN "none" ELSE e>>)
        IN  /\ th' = [th EXCEPT ![t] =
                        IF fd = -1 THEN [Throw(g, "open", e) EXCEPT !.pc = "done"]
                        ELSE [g EXCEPT !.fd = fd, !.opened = Target,
                                       !.pc = "read_read"]]
            /\ SetFS(dir, data, durDir, durData,
                     IF good THEN [fdt EXCEPT ![t][fd] = FileDesc(dir[fileName])] ELSE fdt)
    /\ UNCHANGED <<env, pre, writes, pubs, oks, last, crashed>>

\* readFile: one read(fd, &buffer, sizeof(buffer)) of the loop; savedErrno when it ends.
\* Where system calls may fail or be interrupted, a read may return less than there is.
Read_read(t) ==
    /\ th[t].pc = "read_read"
    /\ LET f == th[t]
           ino == fdt[t][f.fd].ino
           off == fdt[t][f.fd].off
           left == Len(data[ino]) - off
       IN  \E len \in (IF env.faults[t] THEN {-1} ELSE {})
                        \cup (IF left <= 0 THEN {0}
                              ELSE IF env.faults[t] THEN 1..Min(BufferSize, left)
                              ELSE {Min(BufferSize, left)}) :
            LET g == Log(f, <<"read", f.fd, len, IF len < 0 THEN "EIO" ELSE "none">>)
                e == IF len < 0 THEN "EIO" ELSE f.errno
            IN  /\ th' = [th EXCEPT ![t] =
                            IF len > 0
                            THEN [g EXCEPT !.len = len,
                                           !.os = @ \o SubSeq(data[ino], off + 1, off + len)]
                            ELSE [g EXCEPT !.len = len, !.errno = e, !.savedErrno = e,
                                           !.pc = "read_close"]]
                /\ SetFS(dir, data, durDir, durData,
                         IF len > 0 THEN [fdt EXCEPT ![t][f.fd].off = off + len] ELSE fdt)
    /\ UNCHANGED <<env, pre, writes, pubs, oks, last, crashed>>

\* readFile: close(fd); then throw the read error, or return os.str()
Read_close(t) ==
    /\ th[t].pc = "read_close"
    /\ \E ok \in Outcomes(t) :
        LET f == th[t]
            g == [Log(f, IF ok THEN <<"close", f.fd, 0, "none">>
                              ELSE <<"close", f.fd, -1, "EINTR">>)
                    EXCEPT !.errno = IF ok THEN @ ELSE "EINTR"]
        IN  /\ th' = [th EXCEPT ![t] =
                        IF f.len < 0
                        THEN [Throw(g, "read", ReadErrno(f.savedErrno, g.errno))
                                EXCEPT !.pc = "done", !.errno = g.errno]
                        ELSE [g EXCEPT !.ret = f.os, !.pc = "done"]]
            /\ SetFS(dir, data, durDir, durData, [fdt EXCEPT ![t][f.fd] = FreeDesc])
    /\ UNCHANGED <<env, pre, writes, pubs, oks, last, crashed>>

(***************************************************************************)
(* The machine under the program: the kernel writes dirty state back in   *)
(* its own time, and the machine may crash and come back with what is on   *)
(* disk.                                                                   *)
(***************************************************************************)
\* Some prefix of a file's unsynced contents reaches the disk.
WritebackData ==
    \E i \in Inodes :
        /\ durData[i] # data[i]
        /\ \E p \in Prefixes(data[i]) \ {durData[i]} :
            SetFS(dir, data, durDir, [durData EXCEPT ![i] = p], fdt)
        /\ UNCHANGED <<th, env, pre, writes, pubs, oks, last, crashed>>

\* One unsynced directory entry reaches the disk.
WritebackDir ==
    \E n \in Names :
        /\ durDir[n] # dir[n]
        /\ SetFS(dir, data, [durDir EXCEPT ![n] = dir[n]], durData, fdt)
        /\ UNCHANGED <<th, env, pre, writes, pubs, oks, last, crashed>>

\* Power is lost: every process and descriptor is gone, the disk's state is the state.
Crash ==
    /\ th' = [t \in Threads |-> Frame0]
    /\ SetFS(durDir, durData, durDir, durData,
             [t \in Threads |-> [fd \in FdNums |-> FreeDesc]])
    /\ crashed' = th[1].call \o ":" \o th[1].pc
    /\ last' = [last EXCEPT !.crash =
                    IF th[1].call = "write" /\ th[1].pc # "done" THEN "cut"
                    ELSE IF @ = "no" THEN "later" ELSE @]
    /\ UNCHANGED <<env, pre, writes, pubs, oks>>

(***************************************************************************)
(* A caller of the handles alone: it constructs a DirFd and a WriteFd,    *)
(* calls close() on them any number of times in any order, catching what   *)
(* close() throws or not, and leaves the scope.                            *)
(***************************************************************************)
CallHandle(t) ==
    /\ Idle(t, "handle")
    /\ th' = [th EXCEPT ![t] = [Frame0 EXCEPT !.pc = "h_DirFd", !.call = "handle"]]
    /\ UNCHANGED <<dir, data, durDir, durData, fdt, env, pre, writes, pubs, oks,
                   last, crashed>>

H_DirFd(t) ==
    /\ th[t].pc = "h_DirFd"
    /\ DirFd_ctor(t, "h_WriteFd")

H_WriteFd(t) ==
    /\ th[t].pc = "h_WriteFd"
    /\ WriteFd_ctor(t, workFileName, "h_use")

H_close(t) ==
    /\ th[t].pc = "h_use"
    /\ \E h \in {"dirFd", "workFileFd"} :
        /\ th[t].closes[h] < MaxCloses
        /\ BaseFd_close(t, h, "h_use")

\* The caller catches the exception of close() and goes on using the handles.
H_catch(t) ==
    /\ th[t].pc = "dtor"
    /\ th[t].call = "handle"
    /\ th[t].exc = "close"
    /\ th' = [th EXCEPT ![t].pc = "h_use", ![t].exc = "none", ![t].excErrno = "none"]
    /\ UNCHANGED <<dir, data, durDir, durData, fdt, env, pre, writes, pubs, oks,
                   last, crashed>>

\* The scope of the handles ends.
H_leave(t) ==
    /\ th[t].pc = "h_use"
    /\ th' = [th EXCEPT ![t].pc = "dtor"]
    /\ UNCHANGED <<dir, data, durDir, durData, fdt, env, pre, writes, pubs, oks,
                   last, crashed>>

(***************************************************************************)
(* Initial states and specifications.                                      *)
(***************************************************************************)
\* The directory before the program runs: the target and a stale work file, each
\* absent or with any contents, all of it on disk.
InitFS(tc, wc) ==
    LET d == [n \in Names |->
                IF n = fileName THEN (IF tc = Absent THEN 0 ELSE 1)
                ELSE IF wc = Absent THEN 0 ELSE IF tc = Absent THEN 1 ELSE 2]
        dt == [i \in Inodes |->
                IF i = d[fileName] THEN tc
                ELSE IF i = d[workFileName] THEN wc ELSE <<>>]
    IN  /\ dir = d
        /\ durDir = d
        /\ data = dt
        /\ durData = dt
        /\ fdt = [t \in Threads |-> [fd \in FdNums |-> FreeDesc]]
        /\ pre = tc

InitEnv(e) ==
    /\ \E tc \in e.old, wc \in e.stale : InitFS(tc, wc)
    /\ env = e
    /\ th = [t \in Threads |-> [Frame0 EXCEPT !.obj = t \in e.given]]
    /\ writes = <<>>
    /\ pubs = <<>>
    /\ oks = {}
    /\ last = Last0
    /\ crashed = "no"

\* One thread constructs and writes on a machine that may crash.
EnvCrash ==
    [faults |-> [t \in Threads |-> TRUE],
     log |-> FALSE,
     driver |-> [t \in Threads |-> "any"],
     quota |-> [t \in Threads |-> MaxWrites],
     old |-> {Absent, Bytes(0, MaxLen)},
     stale |-> {Absent, Bytes(MaxWrites + 1, MaxLen)},
     ops |-> [t \in Threads |-> IF t = 1 THEN {"new", "write"} ELSE {}],
     lens |-> [t \in Threads |-> 0..MaxLen],
     given |-> {}]

\* One thread constructs, writes and reads; any system call may fail.
EnvSeq ==
    [faults |-> [t \in Threads |-> TRUE],
     log |-> TRUE,
     driver |-> [t \in Threads |-> "any"],
     quota |-> [t \in Threads |-> MaxWrites],
     old |-> {Absent} \cup OldContents,
     stale |-> {Absent} \cup StaleContents,
     ops |-> [t \in Threads |-> IF t = 1 THEN {"new", "write", "read"} ELSE {}],
     lens |-> [t \in Threads |-> 0..MaxLen],
     given |-> {}]

\* One thread exercises the handles.
EnvFd ==
    [faults |-> [t \in Threads |-> TRUE],
     log |-> TRUE,
     driver |-> [t \in Threads |-> "any"],
     quota |-> [t \in Threads |-> MaxWrites],
     old |-> {Absent} \cup OldContents,
     stale |-> {Absent} \cup StaleContents,
     ops |-> [t \in Threads |-> IF t = 1 THEN {"handle"} ELSE {}],
     lens |-> [t \in Threads |-> {}],
     given |-> {}]

\* One thread writes while another reads through the same object, which was
\* constructed before; any system call may fail, and reads may be short.
EnvReader ==
    [faults |-> [t \in Threads |-> TRUE],
     log |-> FALSE,
     driver |-> [t \in Threads |-> "any"],
     quota |-> [t \in Threads |-> MaxWrites],
     old |-> {Absent, Bytes(0, MaxLen)},
     stale |-> {Absent, Bytes(MaxWrites + 1, MaxLen)},
     ops |-> [t \in Threads |->
                IF t = 1 THEN {"write"} ELSE IF t = 2 THEN {"read"} ELSE {}],
     lens |-> [t \in Threads |-> 0..MaxLen],
     given |-> {1, 2}]

\* Two threads run writeFile once each, a third reads; no system call fails on its own.
EnvRace ==
    [faults |-> [t \in Threads |-> FALSE],
     log |-> FALSE,
     driver |-> [t \in Threads |-> IF t = 3 THEN "any" ELSE "writeFile"],
     quota |-> [t \in Threads |-> 1],
     old |-> {Bytes(0, MaxLen)},
     stale |-> {Absent, Bytes(MaxWrites + 1, MaxLen)},
     ops |-> [t \in Threads |-> IF t = 3 THEN {"read"} ELSE {"new", "write"}],
     lens |-> [t \in Threads |-> {MaxLen}],
     given |-> {3}]

\* One thread makes one write call through an object constructed before, with a
\* buffer of up to MaxBuf bytes; ::write may accept any part of what remains, or fail.
EnvWriteAll ==
    [faults |-> [t \in Threads |-> TRUE],
     log |-> TRUE,
     driver |-> [t \in Threads |-> "any"],
     quota |-> [t \in Threads |-> 1],
     old |-> {Absent},
     stale |-> {Absent, Bytes(MaxWrites + 1, MaxLen)},
     ops |-> [t \in Threads |-> IF t = 1 THEN {"write"} ELSE {}],
     lens |-> [t \in Threads |-> 0..MaxBuf],
     given |-> {1}]

StepNew(t) ==
    \/ CallNew(t)
    \/ Cleanup_DirFd(t)
    \/ Cleanup_unlink(t)
    \/ Cleanup_close(t)

StepWrite(t) ==
    \/ CallWrite(t)
    \/ Write_DirFd(t)
    \/ Write_WriteFd(t)
    \/ Write_writeAll(t)
    \/ Write_sync(t)
    \/ Write_close(t)
    \/ Write_renameFile(t)
    \/ Write_dirSync(t)
    \/ Write_dirClose(t)

StepRead(t) ==
    \/ CallRead(t)
    \/ Read_open(t)
    \/ Read_read(t)
    \/ Read_close(t)

StepEnd(t) ==
    \/ Destructors(t)
    \/ Return(t)

Next == \E t \in Threads : StepNew(t) \/ StepWrite(t) \/ StepRead(t) \/ StepEnd(t)

NextReader == \E t \in Threads : StepWrite(t) \/ StepRead(t) \/ StepEnd(t)

NextWrite == \E t \in Threads : StepWrite(t) \/ StepEnd(t)

NextCrash ==
    \/ \E t \in Threads : StepNew(t) \/ StepWrite(t) \/ StepEnd(t)
    \/ WritebackData
    \/ WritebackDir
    \/ Crash

HandleStep(t) ==
    \/ CallHandle(t)
    \/ H_DirFd(t)
    \/ H_WriteFd(t)
    \/ H_close(t)
    \/ H_catch(t)
    \/ H_leave(t)
    \/ Destructors(t)
    \/ Return(t)

NextFd == \E t \in Threads : HandleStep(t)

\* One process, one thread.
Spec == InitEnv(EnvSeq) /\ [][Next]_vars

\* One process, one thread, on a machine that may crash.
SpecCrash == InitEnv(EnvCrash) /\ [][NextCrash]_vars

\* The handles under any caller.
SpecFd == InitEnv(EnvFd) /\ [][NextFd]_vars

\* One writer and a concurrent reader.
SpecReader == InitEnv(EnvReader) /\ [][NextReader]_vars

\* Two writers and a concurrent reader.
SpecRace == InitEnv(EnvRace) /\ [][Next]_vars

\* One write call, for writeAll.
SpecWriteAll == InitEnv(EnvWriteAll) /\ [][NextWrite]_vars

\* The same, where the thread goes on as long as it has a step to take: its code is
\* synchronous, and every system call of it returns.
SpecWriteAllFair == SpecWriteAll /\ WF_vars(NextWrite)

(***************************************************************************)
(* The properties.                                                         *)
(***************************************************************************)
Range(q) == {q[i] : i \in 1..Len(q)}

\* Thread t has finished the call and its caller has not yet gone on.
Done(t, call) == th[t].pc = "done" /\ th[t].call = call
Normal(t) == th[t].exc = "none"
Returned(t, call) == Done(t, call) /\ Normal(t)

\* The entries of a trace that are the system call name.
Calls(tr, name) == {i \in 1..Len(tr) : tr[i][1] = name}
\* What the target shows in a single-writer run: the last payload renamed onto it.
Published == IF pubs = <<>> THEN pre ELSE pubs[Len(pubs)]

\* C1: a read that follows a write call that returned normally, with no write
\* started in between, returns exactly that write's payload.
C1_RoundTrip ==
    \A t \in Threads : (Returned(t, "read") /\ last.ok) => th[t].ret = last.data

C1_Witness ==
    /\ Returned(1, "read")
    /\ last.ok
    /\ th[1].ret = last.data
    /\ Len(last.data) = MaxLen
    /\ Cardinality(Calls(th[1].trace, "read")) > 2

\* C2 as stated: a read returns the payload of a write call that returned normally
\* or, if none did, the pre-existing contents.
C2_Original ==
    \A t \in Threads :
        Returned(t, "read") => (th[t].ret \in oks \/ (oks = {} /\ th[t].ret = pre))

\* C2 as amended: a read returns the payload of the last write whose rename succeeded,
\* whether that write then returned or threw, or, if no rename succeeded, the
\* pre-existing contents; never a prefix of a payload or an empty file nobody wrote.
C2_NoTornState ==
    \A t \in Threads : Returned(t, "read") => th[t].ret = Published

\* A read after a write that failed in the middle of its payload.
C2_Witness ==
    /\ Returned(1, "read")
    /\ Len(writes) = 2
    /\ pubs = <<writes[1]>>
    /\ Len(writes[2]) = MaxLen
    /\ Work # Absent
    /\ Len(Work) = 1
    /\ th[1].ret = writes[1]

\* C3: once a write call has returned normally and no other write has started, the
\* target on disk holds exactly its payload, and so does the target after a crash.
C3_Durable ==
    last.ok => /\ DurTarget = last.data
               /\ crashed # "no" => Target = last.data

C3_Witness ==
    /\ crashed # "no"
    /\ last.ok
    /\ Target = last.data
    /\ Len(last.data) = MaxLen
    /\ last.prior # Absent

\* The crash just recovered from struck inside a write call.
CrashedInWrite ==
    crashed \in {"write:" \o pc :
                    pc \in {"write_DirFd", "write_WriteFd", "write_writeAll", "write_sync",
                            "write_close", "write_renameFile", "write_dirSync",
                            "write_dirClose", "dtor"}}

\* C4 as stated: after a crash inside write, the target holds the contents it had
\* when the write began (or is absent if it was) or the complete new payload.
C4_Original == CrashedInWrite => Target \in {last.prior, last.data}

\* C4 as amended: after a crash inside write, the target holds the complete new
\* payload, or the complete contents it showed when the write began, or the complete
\* contents it had on disk when the write began (older ones, when the directory fsync
\* of an earlier write had failed); never a part of the new payload.
C4_CrashAtomic ==
    CrashedInWrite => Target \in {last.data, last.prior, last.durPrior}

\* A crash in the middle of the payload write, part of the work file on disk.
C4_Witness ==
    /\ crashed = "write:write_writeAll"
    /\ Len(last.data) = MaxLen
    /\ Target = last.prior
    /\ Target # Absent
    /\ Work # Absent
    /\ Len(Work) = 1

\* C5: with two writers, every read returns the pre-existing contents or the complete
\* payload of one of the writes.
C5_TwoWriters ==
    \A t \in Threads : Returned(t, "read") => th[t].ret \in {pre} \cup Range(writes)

\* C6: with one writer, a concurrent read returns what the target held when the read
\* opened it, which is the pre-existing contents or the complete payload of a write.
C6_ReaderSeesWhole ==
    \A t \in Threads :
        Returned(t, "read") => /\ th[t].ret = th[t].opened
                               /\ th[t].ret \in {pre} \cup Range(pubs)

\* A read in several chunks that began before a rename and ended after it.
C6_Witness ==
    /\ Returned(2, "read")
    /\ Len(pubs) = 2
    /\ th[2].ret = pubs[1]
    /\ Len(th[2].ret) = MaxLen
    /\ Target = pubs[2]

\* C7: when the constructor returns normally the work name does not exist.
C7_Cleanup ==
    \A t \in Threads : Returned(t, "new") => dir[workFileName] = 0

\* The constructor removed a stale work file.
C7_Witness ==
    /\ Returned(1, "new")
    /\ \E i \in Calls(th[1].trace, "unlinkat") : th[1].trace[i][3] = 0
    /\ dir[workFileName] = 0

\* A system call of the constructor failed in a way that is not ignored.
NewFailed(tr) ==
    \E i \in 1..Len(tr) :
        /\ tr[i][3] = -1
        /\ \/ tr[i][1] \in {"open", "close"}
           \/ tr[i][1] = "unlinkat" /\ tr[i][4] # "ENOENT"

\* C8: the constructor throws exactly when the directory open, the unlink (with an
\* error other than ENOENT) or the directory close fails, and then there is no object.
C8_NewOutcome ==
    \A t \in Threads :
        Done(t, "new") => /\ Normal(t) <=> ~NewFailed(th[t].trace)
                          /\ th[t].obj <=> Normal(t)

\* The constructor succeeded with neither a work file nor a target there.
C8_Witness ==
    /\ Returned(1, "new")
    /\ th[1].obj
    /\ \E i \in Calls(th[1].trace, "unlinkat") :
        th[1].trace[i][3] = -1 /\ th[1].trace[i][4] = "ENOENT"
    /\ Target = Absent

\* C9: between calls no descriptor is open, as before the first call.
C9_NoLeak ==
    \A t \in Threads : th[t].pc \in {"idle", "done"} => OpenFds(fdt[t]) = {}

\* A write that threw with both handles open.
C9_Witness ==
    /\ Done(1, "write")
    /\ th[1].exc = "write"
    /\ th[1].written > 0
    /\ Cardinality(Calls(th[1].trace, "close")) = 2
    /\ OpenFds(fdt[1]) = {}

\* The descriptors the handles of a trace opened.
Owned(tr) ==
    {tr[i][3] : i \in {j \in Calls(tr, "open") \cup Calls(tr, "openat") : tr[j][3] >= 0}}
Closes(tr, fd) == Cardinality({i \in Calls(tr, "close") : tr[i][2] = fd})

\* C10: ::close is never issued twice on a descriptor a handle owns, it has been
\* issued exactly once when the handle is destroyed, and a handle on which close()
\* was called holds no descriptor, whether ::close failed or not.
C10_CloseOnce ==
    \A t \in Threads :
        /\ \A fd \in Owned(th[t].trace) :
            /\ Closes(th[t].trace, fd) <= 1
            /\ th[t].pc = "done" => Closes(th[t].trace, fd) = 1
        /\ \A h \in {"dirFd", "workFileFd"} : th[t].closes[h] > 0 => th[t][h] = -1

\* Both handles closed twice, a close failing, then destroyed.
C10_Witness ==
    /\ Done(1, "handle")
    /\ Cardinality(Owned(th[1].trace)) = 2
    /\ th[1].closes.dirFd = 2
    /\ th[1].closes.workFileFd = 2
    /\ \E i \in Calls(th[1].trace, "close") : th[1].trace[i][3] = -1

\* C11: when a write call throws before it has issued the rename (at the directory
\* open, the creation of the work file, the payload write, the work file's fsync or its
\* close), the target name is bound to the file it was bound to when the call began,
\* with the contents it had then, or is still absent.
C11_TargetUntouched ==
    \A t \in Threads :
        (Done(t, "write") /\ ~Normal(t) /\ Calls(th[t].trace, "renameat") = {})
            => /\ dir[fileName] = last.ino
               /\ Target = last.prior

\* A write onto an existing target that failed after a part of its payload.
C11_Witness ==
    /\ Done(1, "write")
    /\ th[1].exc = "write"
    /\ th[1].written = 1
    /\ Len(th[1].data) = MaxLen
    /\ Calls(th[1].trace, "renameat") = {}
    /\ Target = last.prior
    /\ Target # Absent
    /\ Work = SubSeq(th[1].data, 1, 1)

\* C12 as stated: after a write that crashed or was abandoned before its rename
\* succeeded, when the next constructor has returned, the work name does not exist and
\* the target holds what it held when that write began.
C12_Original ==
    \A t \in Threads :
        (Returned(t, "new") /\ writes # <<>> /\ ~last.renamed)
            => /\ dir[workFileName] = 0
               /\ Target = last.prior

\* C12 as amended: ... the work name does not exist and the target holds what it held
\* when that write began or, after a crash, what it held on disk when that write began
\* (older contents, when the directory fsync of an earlier write had failed).
C12_Recovery ==
    \A t \in Threads :
        (Returned(t, "new") /\ writes # <<>> /\ ~last.renamed)
            => /\ dir[workFileName] = 0
               /\ Target \in {last.prior, last.durPrior}
               /\ last.crash = "no" => Target = last.prior

\* A crash cut a write before its rename, the work file had reached the disk, and the
\* next constructor removed it.
C12_Witness ==
    /\ Returned(1, "new")
    /\ last.crash = "cut"
    /\ ~last.renamed
    /\ Len(last.data) = MaxLen
    /\ th[1].errno = "none"
    /\ dir[workFileName] = 0
    /\ Target = last.prior
    /\ Target # Absent

\* The names of the system calls of a trace, in order.
NamesOf(tr) == [i \in 1..Len(tr) |-> tr[i][1]]

\* The system calls of a complete commit whose payload took nw calls of ::write.
Protocol(nw) ==
    <<"open", "openat">> \o [i \in 1..nw |-> "write"]
        \o <<"fsync", "close", "renameat", "fsync", "close">>

\* C13: while write runs, the system calls it has issued are, in order, a beginning of
\* open directory, create work file, write payload, fsync work file, close work file,
\* rename, fsync directory, close directory; none but the last of them failed, and
\* after a failed one nothing more is attempted; a rename comes directly after the
\* successful fsync and close of the work file's descriptor, and what follows a rename
\* follows its success and acts on the directory's descriptor.
C13_ProtocolOrder ==
    \A t \in Threads :
        (th[t].call = "write" /\ th[t].pc # "done") =>
            LET tr == th[t].trace
            IN  /\ IsPrefix(NamesOf(tr), Protocol(Cardinality(Calls(tr, "write"))))
                /\ \A i \in 1..(Len(tr) - 1) : tr[i][3] # -1
                /\ (tr # <<>> /\ tr[Len(tr)][3] = -1) => th[t].pc = "dtor"
                /\ \A r \in Calls(tr, "renameat") :
                    /\ tr[r - 2] = <<"fsync", tr[2][3], 0, "none">>
                    /\ tr[r - 1] = <<"close", tr[2][3], 0, "none">>
                    /\ tr[r][2] = tr[1][3]
                    /\ \A j \in (r + 1)..Len(tr) : tr[r][3] = 0 /\ tr[j][2] = tr[1][3]

\* A complete commit whose payload took two short writes.
C13_Witness ==
    /\ th[1].call = "write"
    /\ th[1].pc = "dtor"
    /\ th[1].exc = "none"
    /\ NamesOf(th[1].trace) = Protocol(MaxLen)
    /\ \A i \in 1..Len(th[1].trace) : th[1].trace[i][3] # -1

\* C14: when a write call has ended after its rename succeeded, the target holds the
\* complete payload and the work name does not exist, nothing but the directory's
\* fsync and close was called after the rename, and the call threw the error of the
\* directory fsync if that failed, the error of the directory close if only that
\* failed, and returned normally otherwise.
C14_NoRollback ==
    \A t \in Threads :
        Done(t, "write") =>
            LET tr == th[t].trace
            IN  \A r \in {i \in Calls(tr, "renameat") : tr[i][3] = 0} :
                    /\ Target = th[t].data
                    /\ dir[workFileName] = 0
                    /\ Len(tr) >= r + 2
                    /\ \A j \in (r + 1)..Len(tr) : tr[j][1] \in {"fsync", "close"}
                    /\ tr[r + 1][3] = -1 =>
                        th[t].exc = "fsync" /\ th[t].excErrno = tr[r + 1][4]
                    /\ (tr[r + 1][3] = 0 /\ tr[r + 2][3] = -1) =>
                        th[t].exc = "close" /\ th[t].excErrno = tr[r + 2][4]
                    /\ (tr[r + 1][3] = 0 /\ tr[r + 2][3] = 0) => Normal(t)

\* The directory fsync failed after the rename had replaced an existing target.
C14_Witness ==
    /\ Done(1, "write")
    /\ th[1].exc = "fsync"
    /\ last.renamed
    /\ Len(th[1].data) = MaxLen
    /\ last.prior # Absent
    /\ Target = th[1].data
    /\ dir[workFileName] = 0

\* The bytes the successful ::write calls of a trace reported as written.
Total(tr) ==
    LET sum[i \in 0..Len(tr)] ==
            IF i = 0 THEN 0
            ELSE sum[i - 1] + (IF tr[i][1] = "write" /\ tr[i][3] > 0 THEN tr[i][3] ELSE 0)
    IN  sum[Len(tr)]

\* The file behind the work file's descriptor, and the offset of the descriptor.
WorkFile(t) == data[fdt[t][th[t].workFileFd].ino]
WorkOffset(t) == fdt[t][th[t].workFileFd].off

\* C15: for every sequence of short writes, while writeAll runs the file holds the
\* first `written' bytes of the buffer, in order, and written is the sum of what the
\* ::write calls reported; when writeAll has returned the file holds exactly the buffer
\* and written = size; and a negative result of ::write is the last call of writeAll,
\* which throws.
C15_WriteAllComplete ==
    \A t \in Threads :
        (th[t].call = "write" /\ th[t].pc # "done") =>
            LET f == th[t]
                tr == f.trace
            IN  /\ f.written = Total(tr)
                /\ f.pc = "write_writeAll" =>
                    /\ WorkFile(t) = SubSeq(f.data, 1, f.written)
                    /\ WorkOffset(t) = f.written
                    /\ f.written < Len(f.data)
                /\ f.pc = "write_sync" =>
                    /\ WorkFile(t) = f.data
                    /\ WorkOffset(t) = Len(f.data)
                    /\ f.written = Len(f.data)
                /\ \A i \in Calls(tr, "write") :
                    tr[i][3] < 0 => i = Len(tr) /\ f.pc = "dtor" /\ f.exc = "write"

\* writeAll has returned after three short writes of a full buffer, over a work file
\* that held other bytes.
C15_Witness ==
    /\ th[1].call = "write"
    /\ th[1].pc = "write_sync"
    /\ Len(th[1].data) = MaxBuf
    /\ Cardinality(Calls(th[1].trace, "write")) = 3
    /\ last.work # Absent
    /\ WorkFile(1) = th[1].data

\* Thread t is in the loop of writeAll.
InWriteAll(t) == th[t].call = "write" /\ th[t].pc = "write_writeAll"

\* writeAll has issued no more ::write calls than the buffer has bytes.
WriteCallsBounded ==
    \A t \in Threads :
        th[t].call = "write" =>
            Cardinality(Calls(th[t].trace, "write")) <= Len(th[t].data)

\* An iteration of the loop throws or increases written.
WriteAllProgress ==
    \A t \in Threads :
        (InWriteAll(t) /\ th'[t] # th[t]) =>
            \/ th'[t].exc = "write" /\ th'[t].pc = "dtor"
            \/ th'[t].written > th[t].written /\ th'[t].written <= Len(th[t].data)

\* The only result of ::write that is not negative and leaves written as it is, is 0.
NoProgressOnlyOnZero ==
    \A w \in 0..MaxBuf, ret \in 0..MaxBuf : (WrittenAfter(w, ret) = w) <=> (ret = 0)

\* C20: where every ::write returns a negative value or a count between 1 and the
\* number of remaining bytes, writeAll issues at most size calls of ::write, every
\* iteration throws or strictly increases written, and writeAll ends; written stays
\* as it is only for a ::write that reports 0 bytes.
C20_WriteAllTerminates ==
    /\ []WriteCallsBounded
    /\ []NoProgressOnlyOnZero
    /\ [][WriteAllProgress]_vars
    /\ \A t \in Threads : InWriteAll(t) ~> ~InWriteAll(t)

\* writeAll has returned after as many ::write calls as the buffer has bytes.
C20_Witness ==
    /\ th[1].call = "write"
    /\ th[1].pc = "write_sync"
    /\ Len(th[1].data) = MaxBuf
    /\ Cardinality(Calls(th[1].trace, "write")) = MaxBuf

\* C16: a write call that began while the work name held leftover contents and that
\* returned normally has left exactly its payload in the target, and no work file.
C16_StragglerTruncated ==
    \A t \in Threads :
        (Returned(t, "write") /\ last.work # Absent) =>
            /\ Target = last.data
            /\ dir[workFileName] = 0

\* A one-byte payload committed over a work file that an earlier, failed write had
\* left with a longer payload.
C16_Witness ==
    /\ Returned(1, "write")
    /\ Len(writes) = 2
    /\ last.work = writes[1]
    /\ Len(last.work) = MaxLen
    /\ Len(last.data) = 1
    /\ Target = last.data

\* C17: no step of the constructor, whether it goes on to return or to throw, changes
\* what the target name is bound to or what the target holds; the work name is left
\* as it is or removed.
C17_NewLeavesTarget ==
    [][\A t \in Threads :
        (th[t].call = "new" \/ th'[t].call = "new") =>
            /\ dir'[fileName] = dir[fileName]
            /\ Target' = Target
            /\ DurTarget' = DurTarget
            /\ dir'[workFileName] \in {dir[workFileName], 0}]_vars

\* The constructor removed a stale work file beside an existing target and then threw,
\* its close having failed.
C17_Witness ==
    /\ Done(1, "new")
    /\ th[1].exc = "close"
    /\ \E i \in Calls(th[1].trace, "unlinkat") : th[1].trace[i][3] = 0
    /\ dir[workFileName] = 0
    /\ Target = pre
    /\ Target # Absent
    /\ writes = <<>>

\* C18: a read call that has ended opened the target first; if that failed it made no
\* other system call and threw the open error; otherwise it read from the descriptor
\* until a read returned 0 or failed, closed the descriptor once, as its last system
\* call, and either returned all that the file held (the last read returned 0) or threw
\* the read error with the errno of the failed read, whatever the close did; no
\* descriptor stays open.
C18_ReadHandling ==
    \A t \in Threads :
        Done(t, "read") =>
            LET tr == th[t].trace
                n == Len(tr)
                fd == tr[1][3]
            IN  /\ tr[1][1] = "open"
                /\ OpenFds(fdt[t]) = {}
                /\ fd = -1 =>
                    /\ n = 1
                    /\ th[t].exc = "open"
                    /\ th[t].excErrno = tr[1][4]
                /\ fd # -1 =>
                    /\ n >= 3
                    /\ Calls(tr, "close") = {n}
                    /\ tr[n][2] = fd
                    /\ \A i \in 2..(n - 1) : tr[i][1] = "read" /\ tr[i][2] = fd
                    /\ \A i \in 2..(n - 2) : tr[i][3] > 0
                    /\ tr[n - 1][3] <= 0
                    /\ tr[n - 1][3] = 0 =>
                        /\ Normal(t)
                        /\ th[t].ret = th[t].opened
                    /\ tr[n - 1][3] < 0 =>
                        /\ th[t].exc = "read"
                        /\ th[t].excErrno = tr[n - 1][4]
                        /\ th[t].ret = Absent

\* A read failed after a first chunk, and the close failed too, with another errno.
C18_Witness ==
    /\ Done(1, "read")
    /\ th[1].exc = "read"
    /\ th[1].excErrno = "EIO"
    /\ Len(th[1].trace) = 4
    /\ th[1].trace[2][3] > 0
    /\ th[1].trace[4][1] = "close"
    /\ th[1].trace[4][3] = -1
    /\ th[1].trace[4][4] = "EINTR"

\* C19: the directory at each point of a write call of a single writer.  Until the
\* rename the target is bound to the file, with the contents, it had when the call
\* began; the work name holds what it held before it is opened, then an empty file,
\* then the first `written' bytes of the payload, then the payload.  From the
\* successful rename on the target holds the payload and the work name does not exist.
C19_CommitStates ==
    \A t \in Threads :
        th[t].call = "write" =>
            LET f == th[t]
                before == Target = last.prior /\ dir[fileName] = last.ino
                after == Target = f.data /\ dir[workFileName] = 0
            IN  /\ f.pc \in {"write_DirFd", "write_WriteFd"} => before /\ Work = last.work
                /\ f.pc = "write_writeAll" =>
                    before /\ Work = SubSeq(f.data, 1, f.written)
                /\ f.pc \in {"write_sync", "write_close", "write_renameFile"} =>
                    before /\ Work = f.data
                /\ f.pc \in {"write_dirSync", "write_dirClose"} => after /\ last.renamed
                /\ f.pc \in {"dtor", "done"} => IF last.renamed THEN after ELSE before
                /\ Returned(t, "write") => after

\* In the middle of the payload write, an existing target beside it.
C19_Witness ==
    /\ th[1].call = "write"
    /\ th[1].pc = "write_writeAll"
    /\ th[1].written = 1
    /\ Len(th[1].data) = MaxLen
    /\ Work = SubSeq(th[1].data, 1, 1)
    /\ Target = last.prior
    /\ Target # Absent

=============================================================================
